---- MODULE Spec2Model ----
(***************************************************************************)
(* krusz (src/main.rs): a bitcrusher.  main decodes a sound, resamples it  *)
(* to the requested rate, requantizes it to the requested bit depth and    *)
(* resamples it back to 44100 Hz.                                          *)
(*                                                                         *)
(* Samples are i16 and are modelled as integers in -32768..32767; the bit  *)
(* operations work on their 16-bit two's complement patterns.  f64 values  *)
(* are modelled as exact rationals <<num, den>> with den > 0.              *)
(***************************************************************************)
EXTENDS Integers, Sequences, FiniteSets, TLC

VARIABLES
    pc,      \* position in main, or in the function under analysis
    source,  \* the decoded source handed to Sound::new
    opts,    \* the parsed options, after the defaults of lines 111-113
    sound,   \* the value of `sound` in main
    input,   \* the Sound as Sound::new built it (history)
    data,    \* the interleaved buffer built by to_source
    call,    \* arguments of the function under analysis
    ret      \* its return values, one per call made so far

vars == <<pc, source, opts, sound, input, data, call, ret>>

None == "none"

(***************************************************************************)
(* 16-bit two's complement                                                 *)
(***************************************************************************)
Bits == 16

I16Min == -32768

I16Max == 32767

I16 == I16Min..I16Max

Word == 2^Bits

\* the bit pattern of an i16, as a number in 0..65535, and back
ToBits(s) == s % Word

FromBits(u) == IF u >= Word \div 2 THEN u - Word ELSE u

RECURSIVE BitAnd(_, _, _)
BitAnd(a, b, n) ==
    IF n = 0 THEN 0
    ELSE (IF a % 2 = 1 /\ b % 2 = 1 THEN 1 ELSE 0)
         + 2 * BitAnd(a \div 2, b \div 2, n - 1)

\* `&`, `|`, `!` on 16-bit patterns
And16(a, b) == BitAnd(a, b, Bits)

Not16(a) == (Word - 1) - a

Or16(a, b) == Not16(And16(Not16(a), Not16(b)))

\* `<<` on an i16 with overflow checks off: the shift amount is taken
\* modulo the width (wrapping_shl) and the bits shifted out are lost
Shl16(a, k) == (a * 2^(k % Bits)) % Word

(***************************************************************************)
(* requantize_sample, lines 260-272                                        *)
(***************************************************************************)
U8 == 256

\* `16 - bit_depth` in u8, overflow checks off (wrapping)
ShiftAmount(bit_depth) == (16 - bit_depth) % U8

\* With overflow checks on (a debug build) `16 - bit_depth` panics when it
\* underflows and `!0 << k` panics when k >= 16.
RequantizeOverflows(bit_depth) ==
    /\ bit_depth # 16
    /\ \/ 16 - bit_depth < 0
       \/ 16 - bit_depth >= Bits

\* variant: the fill is chosen the wrong way round
requantize_sample_inverted_fill(sample, bit_depth) ==
    IF bit_depth = 16 THEN sample
    ELSE LET hi_mask == Shl16(Not16(0), ShiftAmount(bit_depth))
             lo_mask == Not16(hi_mask)
             msb     == And16(ToBits(sample), Shl16(1, 15))
             fill    == IF msb = 0 THEN 0 ELSE Not16(0)
         IN  FromBits(Or16(And16(ToBits(sample), hi_mask),
                           And16(fill, lo_mask)))

\* variant: the mask is shifted one bit too far
requantize_sample_wide_mask(sample, bit_depth) ==
    IF bit_depth = 16 THEN sample
    ELSE LET hi_mask == Shl16(Not16(0), ShiftAmount(bit_depth - 1))
             lo_mask == Not16(hi_mask)
             msb     == And16(ToBits(sample), Shl16(1, 15))
             fill    == IF msb = 0 THEN Not16(0) ELSE 0
         IN  FromBits(Or16(And16(ToBits(sample), hi_mask),
                           And16(fill, lo_mask)))

\* variant: the fill is xor-ed into the unmasked sample
requantize_sample_xor_fill(sample, bit_depth) ==
    IF bit_depth = 16 THEN sample
    ELSE LET hi_mask == Shl16(Not16(0), ShiftAmount(bit_depth))
             lo_mask == Not16(hi_mask)
             msb     == And16(ToBits(sample), Shl16(1, 15))
             fill    == IF msb = 0 THEN Not16(0) ELSE 0
             s       == ToBits(sample)
             m       == And16(fill, lo_mask)
         IN  FromBits(And16(Or16(s, m), Not16(And16(s, m))))

requantize_sample(sample, bit_depth) ==
    IF bit_depth = 16 THEN sample
    ELSE LET hi_mask == Shl16(Not16(0), ShiftAmount(bit_depth))
             lo_mask == Not16(hi_mask)
             msb     == And16(ToBits(sample), Shl16(1, 15))
             fill    == IF msb = 0 THEN Not16(0) ELSE 0
         IN  FromBits(Or16(And16(ToBits(sample), hi_mask),
                           And16(fill, lo_mask)))

requantize(s, bit_depth) ==
    [channels |->
        [c \in 1..Len(s.channels) |->
            [samples |->
                [k \in 1..Len(s.channels[c].samples) |->
                    requantize_sample(s.channels[c].samples[k], bit_depth)]]],
     sample_rate |-> s.sample_rate]

\* requantize calls requantize_sample once per sample
HasSamples(s) == \E c \in 1..Len(s.channels) : Len(s.channels[c].samples) > 0

(***************************************************************************)
(* Sound::new and Sound::to_source, lines 67-98                            *)
(* A source is [samples, channels, sample_rate]: what the decoder yields.  *)
(***************************************************************************)
\* samples.iter().skip(i).step_by(channels_count), i counted from 0
SkipStepBy(samples, i, step) ==
    LET n == IF Len(samples) > i THEN (Len(samples) - i - 1) \div step + 1
             ELSE 0
    IN  [k \in 1..n |-> samples[i + (k - 1) * step + 1]]

Sound_new(src) ==
    [channels |->
        [c \in 1..src.channels |->
            [samples |-> SkipStepBy(src.samples, c - 1, src.channels)]],
     sample_rate |-> src.sample_rate]

\* the number of samples to_source produces: c * self.channels[0].samples.len()
to_source_len(s) == Len(s.channels) * Len(s.channels[1].samples)

\* self.channels[i % c].samples[i / c] indexes past the end of a channel
to_source_panics(s) ==
    LET c == Len(s.channels)
    IN  \E i \in 0..(to_source_len(s) - 1) :
            i \div c >= Len(s.channels[(i % c) + 1].samples)

to_source(s) ==
    LET c == Len(s.channels)
    IN  [channels    |-> c,
         sample_rate |-> s.sample_rate,
         data        |-> [k \in 1..to_source_len(s) |->
                            s.channels[((k - 1) % c) + 1]
                                .samples[((k - 1) \div c) + 1]]]

(***************************************************************************)
(* f64 arithmetic, as exact rationals <<num, den>>, den > 0                *)
(*                                                                         *)
(* resample and lerp compute in f64.  The model computes the same          *)
(* expressions exactly.  The two agree whenever no f64 rounding error      *)
(* moves a value across a boundary that the code tests (a half in round    *)
(* and in `a < 0.5`, an integer in `f as usize`, len in the assertion):    *)
(* this is the case for the rates and lengths of the specifications below, *)
(* where such boundaries are only met by values that f64 computes exactly  *)
(* (ratios that are powers of two, or rate equal to rate) or that lead to  *)
(* the same sample on either side.  For large inputs it is not: 11 samples *)
(* taken from 22 Hz to 15 Hz give (11.0 * (15.0 / 22.0)).round() = 7,      *)
(* where 11 * 15 / 22 = 7.5 rounds to 8.                                   *)
(***************************************************************************)
RECURSIVE GCD(_, _)
GCD(a, b) == IF b = 0 THEN a ELSE GCD(b, a % b)

Abs(n) == IF n < 0 THEN -n ELSE n

Min(a, b) == IF a <= b THEN a ELSE b

Rat(n, d) == LET g == GCD(Abs(n), d) IN <<n \div g, d \div g>>

RatLess(x, y) == x[1] * y[2] < y[1] * x[2]

\* f64::round: to the nearest integer, halves away from zero
RoundPos(x) ==
    LET w == x[1] \div x[2]
        m == x[1] % x[2]
    IN  IF 2 * m >= x[2] THEN w + 1 ELSE w

Round(x) == IF x[1] >= 0 THEN RoundPos(x) ELSE -RoundPos(<<-x[1], x[2]>>)

\* `f as usize` and f.fract(), for f >= 0
Trunc(x) == x[1] \div x[2]

Fract(x) == Rat(x[1] % x[2], x[2])

(***************************************************************************)
(* lerp, lines 210-241                                                     *)
(***************************************************************************)
Nearest == "Nearest"

Linear == "Linear"

Interpolation == {Nearest, Linear}

\* the two assertions of lines 215-221
lerp_asserts(values, f) ==
    /\ Len(values) # 0
    /\ f[1] >= 0
    /\ RatLess(f, <<Len(values), 1>>)

\* variant: Nearest compares with `<=`
lerp_nearest_le(values, f, interpolation) ==
    LET x == Trunc(f)
        y == Min(x + 1, Len(values) - 1)
        a == Fract(f)
        xv == values[x + 1]
        yv == values[y + 1]
    IN  IF interpolation = Nearest
        THEN IF ~RatLess(<<1, 2>>, a) THEN <<xv, 1>> ELSE <<yv, 1>>
        ELSE Rat((a[2] - a[1]) * xv + a[1] * yv, a[2])

\* variant: the two neighbours are swapped
lerp_swapped(values, f, interpolation) ==
    LET x == Trunc(f)
        y == Min(x + 1, Len(values) - 1)
        a == Fract(f)
        xv == values[y + 1]
        yv == values[x + 1]
    IN  IF interpolation = Nearest
        THEN IF RatLess(a, <<1, 2>>) THEN <<xv, 1>> ELSE <<yv, 1>>
        ELSE Rat((a[2] - a[1]) * xv + a[1] * yv, a[2])

lerp(values, f, interpolation) ==
    LET x == Trunc(f)
        y == Min(x + 1, Len(values) - 1)
        a == Fract(f)
        xv == values[x + 1]
        yv == values[y + 1]
    IN  IF interpolation = Nearest
        THEN IF RatLess(a, <<1, 2>>) THEN <<xv, 1>> ELSE <<yv, 1>>
        ELSE Rat((a[2] - a[1]) * xv + a[1] * yv, a[2])

(***************************************************************************)
(* resample, lines 179-208                                                 *)
(***************************************************************************)
\* r = sample_rate / sound.sample_rate
resample_r(s, sample_rate) == Rat(sample_rate, s.sample_rate)

\* q = 1.0 / r
resample_q(s, sample_rate) ==
    LET r == resample_r(s, sample_rate) IN <<r[2], r[1]>>

\* variant: the product is truncated instead of rounded
new_sample_count_truncated(s, sample_rate) ==
    LET n == Len(s.channels[1].samples)
        r == resample_r(s, sample_rate)
    IN  Trunc(Rat(n * r[1], r[2]))

\* new_sample_count = (n as f64 * r).round() as usize
new_sample_count(s, sample_rate) ==
    LET n == Len(s.channels[1].samples)
        r == resample_r(s, sample_rate)
    IN  Round(Rat(n * r[1], r[2]))

\* f = i as f64 * q
resample_f(s, sample_rate, i) ==
    LET q == resample_q(s, sample_rate) IN Rat(i * q[1], q[2])

\* some call of lerp made by resample fails an assertion
resample_panics(s, sample_rate) ==
    /\ Len(s.channels[1].samples) # 0
    /\ \E c \in 1..Len(s.channels) :
         \E i \in 0..(new_sample_count(s, sample_rate) - 1) :
            ~lerp_asserts(s.channels[c].samples, resample_f(s, sample_rate, i))

resample(s, sample_rate, interpolation) ==
    IF Len(s.channels[1].samples) = 0
    THEN [channels |-> s.channels, sample_rate |-> sample_rate]
    ELSE [channels |->
            [c \in 1..Len(s.channels) |->
                [samples |->
                    [k \in 1..new_sample_count(s, sample_rate) |->
                        Round(lerp(s.channels[c].samples,
                                   resample_f(s, sample_rate, k - 1),
                                   interpolation))]]],
          sample_rate |-> sample_rate]

(***************************************************************************)
(* Bounds and input domains                                                *)
(***************************************************************************)
MaxLen == 6        \* longest decoded sample sequence

MaxQLen == 2       \* longest decoded sample sequence of SpecRequantize

MaxChannels == 2   \* most channels of a source

MaxRate == 4       \* largest rate of SpecResample

LerpDen == 10      \* lerp's f ranges over the multiples of 1/LerpDen

Flats(V, n) == UNION {[1..k -> V] : k \in 0..n}

Sources(V, rates) ==
    [samples : Flats(V, MaxLen), channels : 1..MaxChannels, sample_rate : rates]

(***************************************************************************)
(* SpecSample: requantize_sample applied to every sample and depth         *)
(***************************************************************************)
InitSample ==
    /\ pc = "call"
    /\ call \in [sample : I16, bit_depth : 1..16]
    /\ ret = <<>>
    /\ source = None /\ opts = None /\ sound = None /\ input = None
    /\ data = None

CallRequantizeSample ==
    /\ pc = "call"
    /\ ret' = <<requantize_sample(call.sample, call.bit_depth)>>
    /\ pc' = "ret"
    /\ UNCHANGED <<source, opts, sound, input, data, call>>

NextSample == CallRequantizeSample

SpecSample == InitSample /\ [][NextSample]_vars

(***************************************************************************)
(* SpecRequantize: requantize applied twice to a decoded sound             *)
(***************************************************************************)
QSamples == {I16Min, -257, -256, -1, 0, 10, 255, 256, I16Max}

InitRequantize ==
    /\ pc = "start"
    /\ source \in [samples : Flats(QSamples, MaxQLen),
                   channels : 1..MaxChannels, sample_rate : {44100}]
    /\ call \in [bit_depth : 1..16]
    /\ ret = <<>>
    /\ opts = None /\ sound = None /\ input = None /\ data = None

RQ_New ==
    /\ pc = "start"
    /\ sound' = Sound_new(source)
    /\ input' = sound'
    /\ pc' = "decoded"
    /\ UNCHANGED <<source, opts, data, call, ret>>

RQ_Requantize ==
    /\ pc = "decoded"
    /\ Len(ret) < 2
    /\ sound' = requantize(sound, call.bit_depth)
    /\ ret' = Append(ret, sound')
    /\ UNCHANGED <<pc, source, opts, input, data, call>>

NextRequantize == RQ_New \/ RQ_Requantize

SpecRequantize == InitRequantize /\ [][NextRequantize]_vars

(***************************************************************************)
(* SpecRoundTrip: Sound::new followed by to_source                         *)
(***************************************************************************)
RTSamples == {-3, 7, 10}

InitRoundTrip ==
    /\ pc = "start"
    /\ source \in Sources(RTSamples, {44100})
    /\ opts = None /\ sound = None /\ input = None /\ data = None
    /\ call = None /\ ret = <<>>

RT_New ==
    /\ pc = "start"
    /\ sound' = Sound_new(source)
    /\ input' = sound'
    /\ pc' = "decoded"
    /\ UNCHANGED <<source, opts, data, call, ret>>

RT_ToSource ==
    /\ pc = "decoded"
    /\ IF to_source_panics(sound)
       THEN pc' = "panic" /\ data' = data
       ELSE pc' = "interleaved" /\ data' = to_source(sound)
    /\ UNCHANGED <<source, opts, sound, input, call, ret>>

NextRoundTrip == RT_New \/ RT_ToSource

SpecRoundTrip == InitRoundTrip /\ [][NextRoundTrip]_vars

(***************************************************************************)
(* SpecLerp: lerp applied to an array and a fractional index               *)
(***************************************************************************)
LerpArrays ==
    {<<1, 2, 3, 4, 5, 6, 7, 8, 9, 10>>} \cup (Flats({-3, 10}, 2) \ {<<>>})

InitLerp ==
    /\ pc = "call"
    /\ call \in UNION {[values : {v},
                        f : {<<n, LerpDen>> : n \in 0..(Len(v) * LerpDen)},
                        interpolation : Interpolation] : v \in LerpArrays}
    /\ ret = <<>>
    /\ source = None /\ opts = None /\ sound = None /\ input = None
    /\ data = None

CallLerp ==
    /\ pc = "call"
    /\ IF lerp_asserts(call.values, call.f)
       THEN /\ ret' = <<lerp(call.values, call.f, call.interpolation)>>
            /\ pc' = "ret"
       ELSE /\ ret' = ret
            /\ pc' = "panic"
    /\ UNCHANGED <<source, opts, sound, input, data, call>>

NextLerp == CallLerp

SpecLerp == InitLerp /\ [][NextLerp]_vars

(***************************************************************************)
(* SpecResample: Sound::new followed by one call of resample               *)
(***************************************************************************)
RSSamples == {-4, -1, 10}

InitResample ==
    /\ pc = "start"
    /\ source \in Sources(RSSamples, 1..MaxRate)
    /\ call \in [sample_rate : 1..MaxRate, interpolation : Interpolation]
    /\ ret = <<>>
    /\ opts = None /\ sound = None /\ input = None /\ data = None

RS_New ==
    /\ pc = "start"
    /\ sound' = Sound_new(source)
    /\ input' = sound'
    /\ pc' = "decoded"
    /\ UNCHANGED <<source, opts, data, call, ret>>

RS_Resample ==
    /\ pc = "decoded"
    /\ IF resample_panics(sound, call.sample_rate)
       THEN pc' = "panic" /\ sound' = sound
       ELSE /\ pc' = "resampled"
            /\ sound' = resample(sound, call.sample_rate, call.interpolation)
    /\ UNCHANGED <<source, opts, input, data, call, ret>>

NextResample == RS_New \/ RS_Resample

SpecResample == InitResample /\ [][NextResample]_vars

(***************************************************************************)
(* Spec: main, lines 106-171                                               *)
(***************************************************************************)
OutputRate == 44100   \* the rate of the last resample, line 138

MaxSampleRate == 44100   \* upper end of the range checked at line 123

MaxBitDepth == 32   \* upper end of the range checked at line 128

MainSamples == {-3, 10}

SourceRates == {8000, 22050, 44100}

OptRates == {0, 8000, 22050, 44100, 44101}

OptDepths == {0, 1, 4, 16, 17, 32, 33}

\* opts.emit stands for opts.output.is_some() || opts.play
Init ==
    /\ pc = "start"
    /\ source \in Sources(MainSamples, SourceRates)
    /\ opts \in [sample_rate : OptRates, bit_depth : OptDepths,
                 interpolation : Interpolation, emit : BOOLEAN]
    /\ sound = None /\ input = None /\ data = None
    /\ call = None /\ ret = <<>>

\* line 115
New ==
    /\ pc = "start"
    /\ sound' = Sound_new(source)
    /\ input' = sound'
    /\ pc' = "decoded"
    /\ UNCHANGED <<source, opts, data, call, ret>>

\* the three ensure! of lines 117-130
Validate ==
    /\ pc = "decoded"
    /\ pc' = IF /\ opts.emit
                /\ opts.sample_rate \in 1..MaxSampleRate
                /\ opts.bit_depth \in 1..MaxBitDepth
             THEN "validated"
             ELSE "error"
    /\ UNCHANGED <<source, opts, sound, input, data, call, ret>>

\* line 136
Resample1 ==
    /\ pc = "validated"
    /\ IF resample_panics(sound, opts.sample_rate)
       THEN pc' = "panic" /\ sound' = sound
       ELSE /\ pc' = "resampled1"
            /\ sound' = resample(sound, opts.sample_rate, opts.interpolation)
    /\ UNCHANGED <<source, opts, input, data, call, ret>>

\* line 137.  Whether an arithmetic overflow panics depends on the build
\* (overflow checks on or off), so both outcomes are possible.
Requantize ==
    /\ pc = "resampled1"
    /\ \/ /\ ~(RequantizeOverflows(opts.bit_depth) /\ HasSamples(sound))
          /\ sound' = requantize(sound, opts.bit_depth)
          /\ pc' = "requantized"
       \/ /\ RequantizeOverflows(opts.bit_depth) /\ HasSamples(sound)
          /\ sound' = sound
          /\ pc' = "panic"
       \/ /\ RequantizeOverflows(opts.bit_depth) /\ HasSamples(sound)
          /\ sound' = requantize(sound, opts.bit_depth)
          /\ pc' = "requantized"
    /\ UNCHANGED <<source, opts, input, data, call, ret>>

\* line 138
Resample2 ==
    /\ pc = "requantized"
    /\ IF resample_panics(sound, OutputRate)
       THEN pc' = "panic" /\ sound' = sound
       ELSE /\ pc' = "resampled2"
            /\ sound' = resample(sound, OutputRate, opts.interpolation)
    /\ UNCHANGED <<source, opts, input, data, call, ret>>

\* lines 140-170: play and save_wav both interleave the sound with to_source
Emit ==
    /\ pc = "resampled2"
    /\ IF to_source_panics(sound)
       THEN pc' = "panic" /\ data' = data
       ELSE pc' = "done" /\ data' = to_source(sound)
    /\ UNCHANGED <<source, opts, sound, input, call, ret>>

Next == New \/ Validate \/ Resample1 \/ Requantize \/ Resample2 \/ Emit

Spec == Init /\ [][Next]_vars

(***************************************************************************)
(* Properties                                                              *)
(***************************************************************************)
\* round(n * t / s), halves away from zero, for n, t >= 0 and s > 0
RoundedCount(n, t, s) == (2 * n * t + s) \div (2 * s)

\* C1: for every flat sequence and channel count c >= 1, Sound::new yields c
\* channels that all have floor(len/c) samples, and to_source completes and
\* reproduces the flat sequence truncated to its first c * floor(len/c)
\* samples.
C1_RoundTrip ==
    LET c == source.channels
        n == Len(source.samples) \div c
    IN  /\ pc # "panic"
        /\ pc \in {"decoded", "interleaved"} =>
              /\ Len(sound.channels) = c
              /\ \A k \in 1..c : Len(sound.channels[k].samples) = n
        /\ pc = "interleaved" => data.data = SubSeq(source.samples, 1, c * n)

\* C2: resample returns a sound at the target rate with the same number of
\* channels, and every channel has round(len * r / sample_rate) samples,
\* computed from that channel's own original length.
C2_ResampleCount ==
    pc = "resampled" =>
        /\ sound.sample_rate = call.sample_rate
        /\ Len(sound.channels) = Len(input.channels)
        /\ \A c \in 1..Len(input.channels) :
              Len(sound.channels[c].samples) =
                  RoundedCount(Len(input.channels[c].samples),
                               call.sample_rate, input.sample_rate)

\* C3: for every sample s and depth d in 1..15, requantize_sample keeps the
\* top d bits of s and sets the low 16-d bits to ones when s >= 0 and to
\* zeros when s < 0; requantize_sample(-1,1) = -32768, (0,1) = 32767,
\* (10,8) = 255, (256,8) = 511.
C3_RequantizeSampleFill ==
    pc = "ret" =>
        LET s == call.sample
            d == call.bit_depth
            k == 2^(16 - d)
            r == ret[1]
        IN  /\ d <= 15 =>
                  r = IF s >= 0 THEN (s \div k) * k + (k - 1)
                      ELSE (s \div k) * k
            /\ (s = -1 /\ d = 1) => r = I16Min
            /\ (s = 0 /\ d = 1) => r = I16Max
            /\ (s = 10 /\ d = 8) => r = 255
            /\ (s = 256 /\ d = 8) => r = 511

C3_Witness ==
    /\ pc = "ret"
    /\ call = [sample |-> 256, bit_depth |-> 8]
    /\ ret = <<511>>

\* C4: requantizing twice at the same depth d in 1..16 gives the same sound
\* as requantizing once: same channels, lengths, samples and sample rate.
C4_RequantizeIdempotent == Len(ret) = 2 => ret[2] = ret[1]

C4_Witness ==
    /\ Len(ret) = 2
    /\ call.bit_depth = 4
    /\ source.samples = <<-257, 10>>
    /\ source.channels = 2
    /\ ret[1] # input
    /\ sound = ret[1]

\* C5: for every sample s and depth d in 1..16, requantize_sample(s, d) is an
\* i16 that differs from s by less than 2^(16-d) in absolute value.
C5_RequantizeRange ==
    pc = "ret" =>
        /\ ret[1] \in I16
        /\ Abs(ret[1] - call.sample) < 2^(16 - call.bit_depth)

C5_Witness ==
    /\ pc = "ret"
    /\ call = [sample |-> 0, bit_depth |-> 1]
    /\ ret[1] - call.sample = 2^15 - 1

\* the run of main that C6 is about: a 44100 Hz mono input crushed to
\* 8000 Hz and 4 bits
C6_Case ==
    /\ source.sample_rate = 44100
    /\ source.channels = 1
    /\ opts.sample_rate = 8000
    /\ opts.bit_depth = 4

C6_Within(tolerance) ==
    C6_Case =>
        /\ pc # "panic"
        /\ pc \in {"resampled2", "done"} =>
              /\ sound.sample_rate = 44100
              /\ Len(sound.channels) = 1
              /\ Abs(Len(sound.channels[1].samples) - Len(source.samples))
                     <= tolerance

\* C6 (as amended): for every 44100 Hz mono signal of length n, the pipeline
\* resample(8000), requantize(4), resample(44100) returns a 44100 Hz signal
\* whose single channel has a length within 3 of n.
C6_PipelineLength == C6_Within(3)

\* C6 (as claimed): the same, with the length within 1 of n.
C6_Original == C6_Within(1)

C6_Witness ==
    /\ pc = "done"
    /\ C6_Case
    /\ Len(source.samples) = 3
    /\ Len(sound.channels[1].samples) = 6

C8_DepthValidated ==
    (pc = "resampled1" /\ HasSamples(sound)) =>
        /\ opts.bit_depth \in 1..16
        /\ 16 - opts.bit_depth >= 0

\* C9: with x = floor(f), y = min(x+1, len-1) and a = f - x, lerp with
\* Nearest returns values[x] if a < 0.5 and values[y] otherwise, and lerp
\* with Linear returns (1-a)*values[x] + a*values[y]; at the last index both
\* return values[x]; on [1..10], lerp(4.8, Nearest) = 6,
\* lerp(4.4, Nearest) = 5 and lerp(4.8, Linear) = 5.8.
C9_Lerp ==
    pc = "ret" =>
        LET v   == call.values
            num == call.f[1]
            den == call.f[2]
            x   == num \div den
            y   == IF x + 1 <= Len(v) - 1 THEN x + 1 ELSE Len(v) - 1
            m   == num - x * den      \* a = m / den
            r   == ret[1]
            ten == <<1, 2, 3, 4, 5, 6, 7, 8, 9, 10>>
        IN  /\ call.interpolation = Nearest =>
                  r = <<(IF 2 * m < den THEN v[x + 1] ELSE v[y + 1]), 1>>
            /\ call.interpolation = Linear =>
                  r[1] * den = ((den - m) * v[x + 1] + m * v[y + 1]) * r[2]
            /\ x = Len(v) - 1 => r = <<v[x + 1], 1>>
            /\ (v = ten /\ num * 10 = 48 * den) =>
                  r = IF call.interpolation = Nearest THEN <<6, 1>>
                      ELSE <<29, 5>>
            /\ (v = ten /\ num * 10 = 44 * den
                        /\ call.interpolation = Nearest) => r = <<5, 1>>

C9_Witness ==
    /\ pc = "ret"
    /\ call = [values |-> <<1, 2, 3, 4, 5, 6, 7, 8, 9, 10>>, f |-> <<48, 10>>,
               interpolation |-> Linear]
    /\ ret = << <<29, 5>> >>

\* C10: for every sound built by Sound::new, every target rate, every
\* channel and every output index i below the new sample count, the position
\* f = i * (sound.sample_rate / target_rate) satisfies 0 <= f < len(channel),
\* so no assertion of lerp fires during resample.
C10_LerpPrecondition ==
    /\ pc # "panic"
    /\ (pc = "decoded" /\ Len(sound.channels[1].samples) # 0) =>
          \A c \in 1..Len(sound.channels) :
              \A i \in 0..(RoundedCount(Len(sound.channels[1].samples),
                                        call.sample_rate,
                                        sound.sample_rate) - 1) :
                  /\ 0 <= i * sound.sample_rate
                  /\ i * sound.sample_rate
                         < Len(sound.channels[c].samples) * call.sample_rate

====
